---- MODULE Spec2Model ----
(***************************************************************************)
(* Model of the order-packing calculator (package domain): the pack-size   *)
(* registry held by PackCalculator and the dynamic-programming optimizer   *)
(* behind Calculate.                                                       *)
(*                                                                         *)
(* Go slices are references to backing arrays, so the model keeps a heap   *)
(* of arrays and every slice-valued field or local is an array id (0 is    *)
(* the nil slice).  Go maps (the DP table, packsBySize, Packs) are         *)
(* functions whose DOMAIN is the set of keys present; a lookup of a        *)
(* missing key is the nil pointer, written as the empty sequence.          *)
(*                                                                         *)
(* Around the calculator: the HTTP handlers of /api/pack-sizes and         *)
(* /api/calculate (both versions of CalculateHandler) answering one        *)
(* request at a time, and goroutines that run UpdatePackSizes,             *)
(* GetPackSizes, Calculate and handlePost statement by statement under     *)
(* the calculator's RWMutex.                                               *)
(***************************************************************************)
EXTENDS Integers, Sequences, FiniteSets, TLC

VARIABLES
    heap,              \* backing arrays of all live slices: id -> sequence of ints
    packSizes,         \* PackCalculator.packSizes (array id)
    argRef,            \* the caller's slice passed to the latest New/UpdatePackSizes
    held,              \* a slice the caller got from GetPackSizes and kept (0: none)
    result,            \* PackResult returned by the latest call, if it was Calculate
    optimalSolutions,  \* the DP table of that Calculate (empty map: never built)
    installed,         \* history: contents of the argument at the latest New/Update
    panicked,          \* the latest call ended in a run-time panic
    asked,             \* history: the order argument of the latest Calculate
    earlier,           \* history: the Calculate result before the latest one, if recorded
    lastOp,            \* history: name of the operation that produced this state
    request,           \* the HTTP request the server is answering (NoRequest: none)
    response,          \* what the handler wrote to the ResponseWriter (status 0: nothing)
    called,            \* history: PackCalculator methods the latest handler called
    mu,                \* PackCalculator.mu: the writer holding it and the readers inside
    procs,             \* the goroutines calling into the calculator, each with its locals
    build              \* a call of buildOptimalSolutions in progress: its loops and maps

vars == <<heap, packSizes, argRef, held, result, optimalSolutions, panicked, installed,
          asked, earlier, lastOp, request, response, called, mu, procs, build>>

\* what only the HTTP handlers and the concurrent goroutines touch
server == <<request, response, called>>
goroutines == <<mu, procs>>

-----------------------------------------------------------------------------
(* Bounds of the explored inputs *)

MaxLen == 2        \* longest pack-size list passed by a caller
MaxPack == 4       \* largest pack size passed by a caller
MaxOrder == 5      \* largest order passed by a caller
MaxAliasLen == 2   \* longest list passed in the aliasing runs
MaxAliasVal == 2   \* largest element written or passed in the aliasing runs

PackValues == (-1)..MaxPack
PackLists == UNION {[1..n -> PackValues] : n \in 0..MaxLen}
Orders == (-1)..MaxOrder

AliasValues == 0..MaxAliasVal
AliasLists == UNION {[1..n -> 1..MaxAliasVal] : n \in 0..MaxAliasLen}
AliasOrders == 0..MaxAliasVal

MaxHttpLen == 2    \* longest pack_sizes array in a request body
MaxHttpPack == 2   \* largest pack size in a request body
MaxHttpOrder == 3  \* largest order in a request body
MaxConcLen == 2    \* longest list passed by a concurrent caller
MaxConcOrder == 2  \* largest order passed by a concurrent caller
MaxBuildLen == 3   \* longest list of a sweep followed step by step
MaxBuildPack == 4  \* largest pack size of such a sweep
MaxBuildOrder == 4 \* largest order of such a sweep

HttpValues == (-1)..MaxHttpPack
HttpLists == UNION {[1..n -> HttpValues] : n \in 0..MaxHttpLen}
HttpOrders == (-1)..MaxHttpOrder
Methods == {"GET", "POST", "DELETE"}

ConcSizes == {1, 2}
ConcLists == UNION {[1..n -> ConcSizes] : n \in 1..MaxConcLen}
ConcOrders == 1..MaxConcOrder
Procs == {"a", "b"}

ArgSizes == {1, 2}
ArgLists == UNION {[1..n -> ArgSizes] : n \in 0..MaxAliasLen}
ArgWrites == {0} \cup ArgSizes
ArgOrders == {0, 1, 2}

BuildValues == (-1)..MaxBuildPack
BuildLists ==
    {l \in UNION {[1..n -> BuildValues] : n \in 0..MaxBuildLen} :
        \A i \in 1..(Len(l) - 1) : l[i] <= l[i + 1]}
BuildOrders == 1..MaxBuildOrder

-----------------------------------------------------------------------------
(* Slices and the heap *)

\* make([]int, n): a fresh backing array gets the least unused id
NewArray(h) ==
    CHOOSE i \in 1..(Cardinality(DOMAIN h) + 1) :
        /\ i \notin DOMAIN h
        /\ \A j \in 1..(i - 1) : j \in DOMAIN h

\* the distinct non-nil array ids among refs, in order of first occurrence
RECURSIVE LiveIds(_, _)
LiveIds(refs, seen) ==
    IF refs = <<>> THEN seen
    ELSE LiveIds(Tail(refs),
                 IF Head(refs) = 0 \/ \E i \in 1..Len(seen) : seen[i] = Head(refs)
                 THEN seen ELSE Append(seen, Head(refs)))

\* Arrays no variable refers to any more are reclaimed, and the live ones are
\* renumbered 1..n in the order of live (array identity is not observable in
\* Go; which slices share an array is, and is kept).
Reclaim(h, live) == [i \in 1..Len(live) |-> h[live[i]]]

\* the id of array r after Reclaim
Moved(live, r) == IF r = 0 THEN 0 ELSE CHOOSE i \in 1..Len(live) : live[i] = r

RECURSIVE InsertSorted(_, _)
InsertSorted(x, s) ==
    IF s = <<>> THEN <<x>>
    ELSE IF x <= Head(s) THEN <<x>> \o s
         ELSE <<Head(s)>> \o InsertSorted(x, Tail(s))

\* sort.Ints: ascending, duplicates kept
RECURSIVE SortInts(_)
SortInts(s) == IF s = <<>> THEN <<>> ELSE InsertSorted(Head(s), SortInts(Tail(s)))

-----------------------------------------------------------------------------
(* Maps *)

\* m[k] = v
MapSet(m, k, v) == IF k \in DOMAIN m THEN [m EXCEPT ![k] = v] ELSE m @@ (k :> v)

\* m[k] of a map of pointers: <<>> is nil
MapGet(m, k) == IF k \in DOMAIN m THEN <<m[k]>> ELSE <<>>

\* m[k]++ of a map of ints
MapIncr(m, k) == IF k \in DOMAIN m THEN [m EXCEPT ![k] = @ + 1] ELSE m @@ (k :> 1)

-----------------------------------------------------------------------------
(* PackCalculator: the registry *)

\* NewPackCalculator(sizes): make, copy, sort.Ints; sizes is the caller's slice
NewPackCalculator(h, sizes) ==
    LET sortedSizes == NewArray(h)
    IN [heap |-> h @@ (sortedSizes :> SortInts(h[sizes])), packSizes |-> sortedSizes]

\* slip: the copy is installed without sorting it
UpdatePackSizesUnsorted(h, sizes) ==
    LET sortedSizes == NewArray(h)
    IN [heap |-> h @@ (sortedSizes :> h[sizes]), packSizes |-> sortedSizes]

\* slip: the caller's slice is sorted where it is and kept as the list
UpdatePackSizesInPlace(h, sizes) ==
    [heap |-> [h EXCEPT ![sizes] = SortInts(@)], packSizes |-> sizes]

\* slip: the sorted copy is built but pc.packSizes is not assigned
UpdatePackSizesKeepingOld(h, sizes) == [heap |-> h, packSizes |-> packSizes]

\* pc.UpdatePackSizes(sizes), under the write lock
UpdatePackSizes(h, sizes) ==
    LET sortedSizes == NewArray(h)
    IN [heap |-> h @@ (sortedSizes :> SortInts(h[sizes])), packSizes |-> sortedSizes]

\* slip: return pc.packSizes itself instead of a copy
GetPackSizesShared(h, pcPackSizes) == [heap |-> h, ref |-> pcPackSizes]

\* pc.GetPackSizes(), under the read lock: a fresh array with the same contents
GetPackSizes(h, pcPackSizes) ==
    LET copied == NewArray(h)
    IN [heap |-> h @@ (copied :> h[pcPackSizes]), ref |-> copied]

-----------------------------------------------------------------------------
(* PackCalculator: the optimizer *)

\* optimalSolutions[0] of Calculate
EmptySolution == [totalItems |-> 0, packsBySize |-> <<>>, totalPackCount |-> 0]

\* slip: newPacks[packSize] = 1 instead of newPacks[packSize]++
createSolutionResettingCount(baseSolution, packSize) ==
    [totalItems     |-> baseSolution.totalItems + packSize,
     packsBySize    |-> MapSet(baseSolution.packsBySize, packSize, 1),
     totalPackCount |-> baseSolution.totalPackCount + 1]

\* slip: the total is not advanced by the pack that was added
createSolutionKeepingTotal(baseSolution, packSize) ==
    [totalItems     |-> baseSolution.totalItems,
     packsBySize    |-> MapIncr(baseSolution.packsBySize, packSize),
     totalPackCount |-> baseSolution.totalPackCount + 1]

\* slip: the package count is advanced by the size of the pack
createSolutionCountingItems(baseSolution, packSize) ==
    [totalItems     |-> baseSolution.totalItems + packSize,
     packsBySize    |-> MapIncr(baseSolution.packsBySize, packSize),
     totalPackCount |-> baseSolution.totalPackCount + packSize]

createSolutionWithPack(baseSolution, packSize) ==
    [totalItems     |-> baseSolution.totalItems + packSize,
     packsBySize    |-> MapIncr(baseSolution.packsBySize, packSize),
     totalPackCount |-> baseSolution.totalPackCount + 1]

\* slip: a recorded solution is never replaced
isBetterOnlyIfNone(newSolution, currentSolution) == currentSolution = <<>>

\* slip: <= instead of < on the package counts
isBetterOrEqual(newSolution, currentSolution) ==
    IF currentSolution = <<>> THEN TRUE
    ELSE IF newSolution.totalItems < currentSolution[1].totalItems THEN TRUE
    ELSE IF /\ newSolution.totalItems = currentSolution[1].totalItems
            /\ newSolution.totalPackCount <= currentSolution[1].totalPackCount THEN TRUE
    ELSE FALSE

\* currentSolution is a pointer: <<>> is nil, <<s>> points to s
isBetterSolution(newSolution, currentSolution) ==
    IF currentSolution = <<>> THEN TRUE
    ELSE IF newSolution.totalItems < currentSolution[1].totalItems THEN TRUE
    ELSE IF /\ newSolution.totalItems = currentSolution[1].totalItems
            /\ newSolution.totalPackCount < currentSolution[1].totalPackCount THEN TRUE
    ELSE FALSE

\* slip: currentQuantity > packSize instead of >=
TryPackSizeStrict(table, currentQuantity, packSize) ==
    IF currentQuantity > packSize
    THEN LET previousSolution == MapGet(table, currentQuantity - packSize)
         IN IF previousSolution = <<>> THEN table
            ELSE LET newSolution == createSolutionWithPack(previousSolution[1], packSize)
                     currentBestSolution == MapGet(table, currentQuantity)
                 IN IF isBetterSolution(newSolution, currentBestSolution)
                    THEN MapSet(table, currentQuantity, newSolution)
                    ELSE table
    ELSE table

\* the body of the inner loop of buildOptimalSolutions for one pack size
TryPackSize(table, currentQuantity, packSize) ==
    IF currentQuantity >= packSize
    THEN LET previousSolution == MapGet(table, currentQuantity - packSize)
         IN IF previousSolution = <<>> THEN table
            ELSE LET newSolution == createSolutionWithPack(previousSolution[1], packSize)
                     currentBestSolution == MapGet(table, currentQuantity)
                 IN IF isBetterSolution(newSolution, currentBestSolution)
                    THEN MapSet(table, currentQuantity, newSolution)
                    ELSE table
    ELSE table

\* for _, packSize := range packSizes, from index i on (the table is compared
\* after each pack size so that it is computed before the loop goes on)
RECURSIVE RangePackSizes(_, _, _, _)
RangePackSizes(table, currentQuantity, sizes, i) ==
    IF i > Len(sizes) THEN table
    ELSE LET tried == TryPackSize(table, currentQuantity, sizes[i])
         IN IF tried = table
            THEN RangePackSizes(table, currentQuantity, sizes, i + 1)
            ELSE RangePackSizes(tried, currentQuantity, sizes, i + 1)

\* for currentQuantity <= limit; currentQuantity++
RECURSIVE RangeQuantities(_, _, _, _)
RangeQuantities(table, currentQuantity, limit, sizes) ==
    IF currentQuantity > limit THEN table
    ELSE LET tried == RangePackSizes(table, currentQuantity, sizes, 1)
         IN IF tried = table
            THEN RangeQuantities(table, currentQuantity + 1, limit, sizes)
            ELSE RangeQuantities(tried, currentQuantity + 1, limit, sizes)

\* sizes is the contents of the snapshot
buildOptimalSolutions(table, limit, sizes) == RangeQuantities(table, 1, limit, sizes)

\* the scan of findBestSolutionForOrder from quantity on; <<>>: none found
RECURSIVE FirstSolution(_, _, _)
FirstSolution(table, quantity, searchLimit) ==
    IF quantity > searchLimit THEN <<>>
    ELSE IF MapGet(table, quantity) # <<>> THEN MapGet(table, quantity)
    ELSE FirstSolution(table, quantity + 1, searchLimit)

\* slip: the scan starts at order + 1
findBestSolutionAboveOrder(table, order, searchLimit, snapshot) ==
    LET solution == FirstSolution(table, order + 1, searchLimit)
    IN IF solution # <<>>
       THEN [Order |-> order, TotalItems |-> solution[1].totalItems,
             Packs |-> solution[1].packsBySize, PackSizes |-> snapshot]
       ELSE [Order |-> order, TotalItems |-> 0, Packs |-> <<>>, PackSizes |-> snapshot]

\* snapshot is the packSizes slice of Calculate (an array id)
findBestSolutionForOrder(table, order, searchLimit, snapshot) ==
    LET solution == FirstSolution(table, order, searchLimit)
    IN IF solution # <<>>
       THEN [Order |-> order, TotalItems |-> solution[1].totalItems,
             Packs |-> solution[1].packsBySize, PackSizes |-> snapshot]
       ELSE [Order |-> order, TotalItems |-> 0, Packs |-> <<>>, PackSizes |-> snapshot]

\* slip: order < 0 instead of order <= 0
NothingToShipStrict(order) == order < 0

\* if order <= 0
NothingToShip(order) == order <= 0

\* slip: the check for an empty list is missing
NoPackSizesUnchecked(sizes) == FALSE

\* if len(packSizes) == 0
NoPackSizes(sizes) == Len(sizes) = 0

\* slip: the search stops at the order itself
SearchLimitAtOrder(order, largestPack) == order

\* searchLimit := order + largestPack
SearchLimit(order, largestPack) == order + largestPack

\* the PackResult of the two early returns of Calculate
EmptyResult(order, snapshot) ==
    [Order |-> order, TotalItems |-> 0, Packs |-> <<>>, PackSizes |-> snapshot]

\* Calculate after its first statement, got being what pc.GetPackSizes() returned:
\* the result, the table it built and the heap afterwards.
\* packSizes[len(packSizes)-1] on an empty slice is an index-out-of-range panic.
CalculateOn(got, order) ==
    LET sizes == got.heap[got.ref]
    IN IF NothingToShip(order)
       THEN [heap |-> got.heap, optimalSolutions |-> <<>>, panicked |-> FALSE,
             result |-> EmptyResult(order, got.ref)]
       ELSE IF NoPackSizes(sizes)
       THEN [heap |-> got.heap, optimalSolutions |-> <<>>, panicked |-> FALSE,
             result |-> EmptyResult(order, got.ref)]
       ELSE IF Len(sizes) - 1 < 0
       THEN [heap |-> got.heap, optimalSolutions |-> <<>>, panicked |-> TRUE,
             result |-> [Order |-> 0, TotalItems |-> 0, Packs |-> <<>>, PackSizes |-> 0]]
       ELSE LET largestPack == sizes[Len(sizes)]
                searchLimit == SearchLimit(order, largestPack)
                table == buildOptimalSolutions(0 :> EmptySolution, searchLimit, sizes)
            IN [heap |-> got.heap, optimalSolutions |-> table, panicked |-> FALSE,
                result |-> findBestSolutionForOrder(table, order, searchLimit, got.ref)]

\* slip: the registry's slice is cut to length 0 once the snapshot is taken
CalculateDrainingRegistry(h, pcPackSizes, order) ==
    LET done == CalculateOn(GetPackSizes(h, pcPackSizes), order)
    IN [done EXCEPT !.heap = [@ EXCEPT ![pcPackSizes] = <<>>]]

\* slip: the order of the call before is still counted
CalculateCarryingOrder(h, pcPackSizes, order) ==
    CalculateOn(GetPackSizes(h, pcPackSizes), order + asked)

\* pc.Calculate(order): the snapshot, then the rest on that snapshot
Calculate(h, pcPackSizes, order) == CalculateOn(GetPackSizes(h, pcPackSizes), order)

\* pr.GetTotalPackCount()
RECURSIVE SumValues(_)
SumValues(m) ==
    IF DOMAIN m = {} THEN 0
    ELSE LET k == CHOOSE x \in DOMAIN m : TRUE
         IN m[k] + SumValues([x \in DOMAIN m \ {k} |-> m[x]])

\* slip: the sizes used are counted, not the packs
GetDistinctPackCount(pr) == Cardinality(DOMAIN pr.Packs)

GetTotalPackCount(pr) == SumValues(pr.Packs)

\* pr.GetSurplus()
GetSurplus(pr) == pr.TotalItems - pr.Order

-----------------------------------------------------------------------------
(* The HTTP handlers *)

\* A request is its method and what json.Decode makes of its body: an error
\* (decodes = FALSE), or the fields "order" (0 when absent) and "pack_sizes"
\* (the nil slice <<>> when absent, else <<list>>).
NoRequest == [method |-> "", decodes |-> FALSE, order |-> 0, packSizes |-> <<>>]

\* req.PackSizes after decoding: an absent field leaves the nil slice
DecodedPackSizes(req) == IF req.packSizes = <<>> THEN <<>> ELSE req.packSizes[1]

\* nothing written to the ResponseWriter yet
NoResponse ==
    [status |-> 0, error |-> "", message |-> "", order |-> 0, total_items |-> 0,
     packs |-> <<>>, pack_sizes |-> <<>>, surplus |-> 0, total_packs |-> 0]

\* response.Error(w, status, message)
Error(status, message) == [NoResponse EXCEPT !.status = status, !.error = message]

\* a handler that returns before it reaches the calculator
Rejected(h, pcPackSizes, status, message) ==
    [heap |-> h, packSizes |-> pcPackSizes, called |-> {},
     response |-> Error(status, message)]

\* len(req.PackSizes) == 0
EmptyPackSizes(sizes) == Len(sizes) = 0

\* for _, size := range req.PackSizes { if size <= 0 ... }
FirstNotPositive(sizes) == Len(sizes) > 0 /\ sizes[1] <= 0
AnyNotPositive(sizes) == \E i \in 1..Len(sizes) : sizes[i] <= 0

\* PackSizesHandler.handleGet
handleGet(h, pcPackSizes) ==
    LET got == GetPackSizes(h, pcPackSizes)
    IN [heap |-> got.heap, packSizes |-> pcPackSizes, called |-> {"GetPackSizes"},
        response |-> [NoResponse EXCEPT !.status = 200,
                                        !.pack_sizes = got.heap[got.ref]]]

\* PackSizesHandler.handlePost
handlePost(h, pcPackSizes, req) ==
    IF ~req.decodes
    THEN Rejected(h, pcPackSizes, 400, "Invalid request body")
    ELSE IF EmptyPackSizes(DecodedPackSizes(req))
    THEN Rejected(h, pcPackSizes, 400, "Pack sizes cannot be empty")
    ELSE IF AnyNotPositive(DecodedPackSizes(req))
    THEN Rejected(h, pcPackSizes, 400, "All pack sizes must be positive")
    ELSE LET arg == NewArray(h)
             done == UpdatePackSizes(h @@ (arg :> DecodedPackSizes(req)), arg)
             got == GetPackSizes(done.heap, done.packSizes)
         IN [heap |-> got.heap, packSizes |-> done.packSizes,
             called |-> {"UpdatePackSizes", "GetPackSizes"},
             response |-> [NoResponse EXCEPT
                              !.status = 200,
                              !.message = "Pack sizes updated successfully",
                              !.pack_sizes = got.heap[got.ref]]]

\* PackSizesHandler.Handle
PackSizesHandle(h, pcPackSizes, req) ==
    IF req.method = "GET" THEN handleGet(h, pcPackSizes)
    ELSE IF req.method = "POST" THEN handlePost(h, pcPackSizes, req)
    ELSE Rejected(h, pcPackSizes, 405, "Method not allowed")

\* req.Order < 0
NotPositiveOrder(order) == order <= 0
NegativeOrder(order) == order < 0

\* the response built from a PackResult; a panic reaches middleware.Recovery
CalculateResponse(done) ==
    IF done.panicked
    THEN Error(500, "Internal server error")
    ELSE [NoResponse EXCEPT !.status = 200,
                            !.order = done.result.Order,
                            !.total_items = done.result.TotalItems,
                            !.packs = done.result.Packs,
                            !.pack_sizes = done.heap[done.result.PackSizes],
                            !.surplus = GetSurplus(done.result),
                            !.total_packs = GetTotalPackCount(done.result)]

\* slip: the sweep runs on the server's calculator, not on one built from the body
CalculateHandleOnRegistry(h, pcPackSizes, req) ==
    IF req.method # "POST"
    THEN Rejected(h, pcPackSizes, 405, "Method not allowed")
    ELSE IF ~req.decodes
    THEN Rejected(h, pcPackSizes, 400, "Invalid request body")
    ELSE IF NegativeOrder(req.order)
    THEN Rejected(h, pcPackSizes, 400, "Order must be positive")
    ELSE IF EmptyPackSizes(DecodedPackSizes(req))
    THEN Rejected(h, pcPackSizes, 400, "Pack sizes cannot be empty")
    ELSE IF AnyNotPositive(DecodedPackSizes(req))
    THEN Rejected(h, pcPackSizes, 400, "All pack sizes must be positive")
    ELSE LET done == Calculate(h, pcPackSizes, req.order)
         IN [heap |-> done.heap, packSizes |-> pcPackSizes,
             called |-> {"NewPackCalculator", "Calculate"},
             response |-> CalculateResponse(done)]

\* slip: the pack sizes are checked before the order
CalculateHandlePackSizesFirst(h, pcPackSizes, req) ==
    IF req.method # "POST"
    THEN Rejected(h, pcPackSizes, 405, "Method not allowed")
    ELSE IF ~req.decodes
    THEN Rejected(h, pcPackSizes, 400, "Invalid request body")
    ELSE IF EmptyPackSizes(DecodedPackSizes(req))
    THEN Rejected(h, pcPackSizes, 400, "Pack sizes cannot be empty")
    ELSE IF AnyNotPositive(DecodedPackSizes(req))
    THEN Rejected(h, pcPackSizes, 400, "All pack sizes must be positive")
    ELSE IF NegativeOrder(req.order)
    THEN Rejected(h, pcPackSizes, 400, "Order must be positive")
    ELSE LET arg == NewArray(h)
             calculator == NewPackCalculator(h @@ (arg :> DecodedPackSizes(req)), arg)
             done == Calculate(calculator.heap, calculator.packSizes, req.order)
         IN [heap |-> done.heap, packSizes |-> pcPackSizes,
             called |-> {"NewPackCalculator", "Calculate"},
             response |-> CalculateResponse(done)]

\* CalculateHandler.Handle, each request bringing its own pack sizes: the
\* calculator it builds is dropped on return and the server's one is not touched
CalculateHandle(h, pcPackSizes, req) ==
    IF req.method # "POST"
    THEN Rejected(h, pcPackSizes, 405, "Method not allowed")
    ELSE IF ~req.decodes
    THEN Rejected(h, pcPackSizes, 400, "Invalid request body")
    ELSE IF NegativeOrder(req.order)
    THEN Rejected(h, pcPackSizes, 400, "Order must be positive")
    ELSE IF EmptyPackSizes(DecodedPackSizes(req))
    THEN Rejected(h, pcPackSizes, 400, "Pack sizes cannot be empty")
    ELSE IF AnyNotPositive(DecodedPackSizes(req))
    THEN Rejected(h, pcPackSizes, 400, "All pack sizes must be positive")
    ELSE LET arg == NewArray(h)
             calculator == NewPackCalculator(h @@ (arg :> DecodedPackSizes(req)), arg)
             done == Calculate(calculator.heap, calculator.packSizes, req.order)
         IN [heap |-> done.heap, packSizes |-> pcPackSizes,
             called |-> {"NewPackCalculator", "Calculate"},
             response |-> CalculateResponse(done)]

\* CalculateHandler.Handle holding the server's calculator: the body's order only
RegistryCalculateHandle(h, pcPackSizes, req) ==
    IF req.method # "POST"
    THEN Rejected(h, pcPackSizes, 405, "Method not allowed")
    ELSE IF ~req.decodes
    THEN Rejected(h, pcPackSizes, 400, "Invalid request body")
    ELSE IF NegativeOrder(req.order)
    THEN Rejected(h, pcPackSizes, 400, "Order must be positive")
    ELSE LET done == Calculate(h, pcPackSizes, req.order)
         IN [heap |-> done.heap, packSizes |-> pcPackSizes,
             called |-> {"Calculate"},
             response |-> CalculateResponse(done)]

-----------------------------------------------------------------------------
(* buildOptimalSolutions followed one pass of its inner loop at a time. A Go map
   is a reference: packsBySize of a solution is the id of a map among the maps
   the call has made, so that two solutions can hold the same map. *)

\* no call is being followed
NoBuild == [currentQuantity |-> 0]

\* slip: newPacks := baseSolution.packsBySize, the base solution's own map
newPacksOfBase(maps, baseSolution) == baseSolution.packsBySize

\* newPacks := make(map[int]int): the id of a new map
newPacks(maps, baseSolution) == Len(maps) + 1

\* the solution a pointer refers to, with the contents of its map
Pointee(maps, solution) == [solution EXCEPT !.packsBySize = maps[@]]

\* createSolutionWithPack on references: newPacks receives the entries of the base
\* map and the pack added, and the new solution holds newPacks
createSolutionWithPackIn(maps, baseSolution, packSize) ==
    LET made == createSolutionWithPack(Pointee(maps, baseSolution), packSize)
        id == newPacks(maps, baseSolution)
    IN [maps |-> IF id \in DOMAIN maps
                 THEN [maps EXCEPT ![id] = made.packsBySize]
                 ELSE Append(maps, made.packsBySize),
        solution |-> [made EXCEPT !.packsBySize = id]]

\* the body of the inner loop for one pack size, on references; call holds the
\* arguments of the isBetterSolution call it made, if it made one
TryPackSizeIn(b, packSize) ==
    IF b.currentQuantity >= packSize
    THEN LET previousSolution == MapGet(b.table, b.currentQuantity - packSize)
         IN IF previousSolution = <<>> THEN [b EXCEPT !.call = <<>>]
            ELSE LET made == createSolutionWithPackIn(b.maps, previousSolution[1], packSize)
                     currentBestSolution == MapGet(b.table, b.currentQuantity)
                 IN [b EXCEPT !.maps = made.maps,
                              !.call = <<[newSolution |-> made.solution,
                                          currentSolution |-> currentBestSolution]>>,
                              !.table = IF isBetterSolution(made.solution,
                                                            currentBestSolution)
                                        THEN MapSet(@, b.currentQuantity, made.solution)
                                        ELSE @]
    ELSE [b EXCEPT !.call = <<>>]

\* the next pack size of the range, or the next quantity with the first pack size
NextPass(b) ==
    IF b.index < Len(b.sizes)
    THEN [b EXCEPT !.index = @ + 1]
    ELSE [b EXCEPT !.index = 1, !.currentQuantity = @ + 1]

\* slip: currentQuantity < limit instead of <=
BuildReturnedEarly(b) == b.currentQuantity >= b.limit

\* currentQuantity <= limit fails: buildOptimalSolutions returns
BuildReturned(b) == b.currentQuantity > b.limit

\* the table with every solution replaced by what its pointer refers to
PointeeTable(b) == [t \in DOMAIN b.table |-> Pointee(b.maps, b.table[t])]

-----------------------------------------------------------------------------
(* The calculator driven by one caller *)

\* the zero value of sync.RWMutex
Unlocked == [writer |-> {}, readers |-> {}]

\* a goroutine that is in no call: where it is (pc) in which call (op), the call's
\* argument and locals, and the history of a Calculate: whether an UpdatePackSizes
\* ran between its start and its snapshot (raced) and, if none did, the list that
\* the latest call before it had installed (latest) and whether that call was an
\* UpdatePackSizes rather than NewPackCalculator (afterUpdate)
Idle ==
    [op |-> "", pc |-> "idle", arg |-> <<>>, order |-> 0, sizes |-> <<>>,
     result |-> [TotalItems |-> 0, Packs |-> <<>>, PackSizes |-> <<>>],
     latest |-> <<>>, raced |-> FALSE, afterUpdate |-> FALSE]

NoGoroutines == [p \in Procs |-> Idle]

\* no Calculate has returned since the latest other call
NoResult == [Order |-> 0, TotalItems |-> 0, Packs |-> <<>>, PackSizes |-> 0]

\* the caller builds its slice, then domain.NewPackCalculator(sizes)
New(sizes) ==
    LET arg == NewArray(<<>>)
        made == NewPackCalculator(arg :> sizes, arg)
        live == LiveIds(<<made.packSizes, arg>>, <<>>)
    IN /\ heap = Reclaim(made.heap, live)
       /\ packSizes = Moved(live, made.packSizes)
       /\ argRef = Moved(live, arg)
       /\ held = 0
       /\ result = NoResult
       /\ optimalSolutions = <<>>
       /\ panicked = FALSE
       /\ asked = 0
       /\ installed = sizes
       /\ earlier = {}
       /\ lastOp = "NewPackCalculator"
       /\ request = NoRequest
       /\ response = NoResponse
       /\ called = {}
       /\ mu = Unlocked
       /\ procs = NoGoroutines
       /\ build = NoBuild

\* the caller builds a new slice, then calculator.UpdatePackSizes(sizes)
UpdateStep(sizes) ==
    LET arg == NewArray(heap)
        done == UpdatePackSizes(heap @@ (arg :> sizes), arg)
        live == LiveIds(<<done.packSizes, arg, held>>, <<>>)
    IN /\ heap' = Reclaim(done.heap, live)
       /\ packSizes' = Moved(live, done.packSizes)
       /\ argRef' = Moved(live, arg)
       /\ held' = Moved(live, held)
       /\ result' = NoResult
       /\ optimalSolutions' = <<>>
       /\ panicked' = FALSE
       /\ asked' = 0
       /\ installed' = sizes
       /\ lastOp' = "UpdatePackSizes"
       /\ UNCHANGED <<server, goroutines, build>>

Update(sizes) == UpdateStep(sizes) /\ earlier' = {}

\* result := calculator.Calculate(order)
CalcStep(order) ==
    LET done == Calculate(heap, packSizes, order)
        live == LiveIds(<<packSizes, argRef, held, done.result.PackSizes>>, <<>>)
    IN /\ heap' = Reclaim(done.heap, live)
       /\ packSizes' = Moved(live, packSizes)
       /\ argRef' = Moved(live, argRef)
       /\ held' = Moved(live, held)
       /\ result' = [done.result EXCEPT !.PackSizes = Moved(live, @)]
       /\ optimalSolutions' = done.optimalSolutions
       /\ panicked' = done.panicked
       /\ asked' = order
       /\ lastOp' = "Calculate"
       /\ UNCHANGED <<installed, server, goroutines>>

Calc(order) == CalcStep(order) /\ earlier' = {} /\ UNCHANGED build

\* the same call, remembering what the call before it returned
CalcAgain(order) ==
    /\ CalcStep(order)
    /\ earlier' = IF lastOp = "Calculate"
                  THEN {[Order |-> result.Order, TotalItems |-> result.TotalItems,
                         Packs |-> result.Packs, PackSizes |-> heap[result.PackSizes]]}
                  ELSE {}
    /\ UNCHANGED build

\* the same calls made by a caller that has put one Calculate result aside
UpdateRecalling(sizes) == UpdateStep(sizes) /\ UNCHANGED earlier
CalcRecalling(order) == CalcStep(order) /\ UNCHANGED <<earlier, build>>

\* the caller puts the result it has just got aside, with the list it was computed on
Record ==
    /\ lastOp = "Calculate"
    /\ earlier' = {[Order |-> asked, TotalItems |-> result.TotalItems,
                    Packs |-> result.Packs, PackSizes |-> heap[result.PackSizes],
                    Installed |-> installed]}
    /\ earlier' # earlier
    /\ UNCHANGED <<heap, packSizes, argRef, held, result, optimalSolutions, panicked,
                   installed, asked, lastOp, server, goroutines, build>>

\* held := calculator.GetPackSizes(), and the caller keeps the slice
Get ==
    LET got == GetPackSizes(heap, packSizes)
        live == LiveIds(<<packSizes, argRef, got.ref>>, <<>>)
    IN /\ heap' = Reclaim(got.heap, live)
       /\ packSizes' = Moved(live, packSizes)
       /\ argRef' = Moved(live, argRef)
       /\ held' = Moved(live, got.ref)
       /\ result' = NoResult
       /\ optimalSolutions' = <<>>
       /\ panicked' = FALSE
       /\ asked' = 0
       /\ earlier' = {}
       /\ lastOp' = "GetPackSizes"
       /\ UNCHANGED <<installed, server, goroutines, build>>

\* the caller writes slice[i] = v into a slice it holds
Write(slice, i, v, op) ==
    /\ slice # 0
    /\ i \in 1..Len(heap[slice])
    /\ heap' = [heap EXCEPT ![slice][i] = v]
    /\ result' = NoResult
    /\ optimalSolutions' = <<>>
    /\ panicked' = FALSE
    /\ asked' = 0
    /\ earlier' = {}
    /\ lastOp' = op
    /\ UNCHANGED <<packSizes, argRef, held, installed, server, goroutines, build>>

\* sizes[i] = v on the slice returned by GetPackSizes
WriteHeld(i, v) == Write(held, i, v, "WriteHeld")

\* sizes[i] = v on the slice the caller passed to NewPackCalculator or UpdatePackSizes
WriteArg(i, v) == Write(argRef, i, v, "WriteArg")

\* calculator.Calculate(order) with an order and a list that reach the sweep: the
\* call as above, and its buildOptimalSolutions about to be followed from
\* optimalSolutions[0], an empty map and no package
StartBuild(order) ==
    /\ build = NoBuild
    /\ ~NothingToShip(order)
    /\ ~NoPackSizes(heap[packSizes])
    /\ CalcStep(order)
    /\ earlier' = {}
    /\ build' = [sizes |-> heap[packSizes],
                 limit |-> SearchLimit(order, heap[packSizes][Len(heap[packSizes])]),
                 currentQuantity |-> 1,
                 index |-> 1,
                 table |-> 0 :> [EmptySolution EXCEPT !.packsBySize = 1],
                 maps |-> << <<>> >>,
                 call |-> <<>>]

\* one pass of the inner loop of buildOptimalSolutions
BuildStep ==
    /\ build # NoBuild
    /\ ~BuildReturned(build)
    /\ build' = NextPass(TryPackSizeIn(build, build.sizes[build.index]))
    /\ UNCHANGED <<heap, packSizes, argRef, held, result, optimalSolutions, panicked,
                   installed, asked, earlier, lastOp, server, goroutines>>

-----------------------------------------------------------------------------
(* The server answering one request at a time *)

\* slip: only the emptiness of DefaultPackSizes is checked
ValidateNotEmpty(sizes) == Len(sizes) # 0

\* Config.Validate on DefaultPackSizes: non-empty and every size positive
Validate(sizes) == Len(sizes) # 0 /\ \A i \in 1..Len(sizes) : sizes[i] > 0

\* the bodies a client can send: undecodable, or with "pack_sizes" absent or present
PackSizesBodies ==
    {[decodes |-> FALSE, order |-> 0, packSizes |-> <<>>]}
        \cup {[decodes |-> TRUE, order |-> 0, packSizes |-> ps] :
                  ps \in {<<>>} \cup {<<l>> : l \in HttpLists}}

\* a POST carries any of the bodies; the other methods carry none, or one that
\* decodes to an order <= 0 and no pack sizes
Requests(bodies) ==
    {[method |-> "POST", decodes |-> b.decodes, order |-> b.order,
      packSizes |-> b.packSizes] : b \in bodies}
        \cup {[method |-> m, decodes |-> b.decodes, order |-> b.order,
               packSizes |-> b.packSizes] :
                  m \in Methods \ {"POST"},
                  b \in {c \in bodies : ~c.decodes \/ (c.order <= 0 /\ c.packSizes = <<>>)}}

\* a handler ran on req and left done: its effects on the calculator and the
\* response; the slice decoded from the body is dropped when the handler returns
Served(req, done, handler) ==
    LET kept == IF "UpdatePackSizes" \in done.called THEN 0 ELSE argRef
        live == LiveIds(<<done.packSizes, kept, held>>, <<>>)
    IN /\ response = NoResponse
       /\ heap' = Reclaim(done.heap, live)
       /\ packSizes' = Moved(live, done.packSizes)
       /\ argRef' = Moved(live, kept)
       /\ held' = Moved(live, held)
       /\ request' = req
       /\ response' = done.response
       /\ called' = done.called
       /\ installed' = IF "UpdatePackSizes" \in done.called
                       THEN DecodedPackSizes(req) ELSE installed
       /\ result' = NoResult
       /\ optimalSolutions' = <<>>
       /\ panicked' = FALSE
       /\ asked' = 0
       /\ earlier' = {}
       /\ lastOp' = handler
       /\ UNCHANGED <<goroutines, build>>

\* a request to /api/pack-sizes
ServePackSizes(req) ==
    Served(req, PackSizesHandle(heap, packSizes, req), "PackSizesHandler.Handle")

\* the bodies sent to /api/calculate: undecodable, or an order with or without pack_sizes
CalculateBodies ==
    {[decodes |-> FALSE, order |-> 0, packSizes |-> <<>>]}
        \cup {[decodes |-> TRUE, order |-> o, packSizes |-> ps] :
                  o \in HttpOrders, ps \in {<<>>} \cup {<<l>> : l \in HttpLists}}

\* a request to /api/calculate, in the deployment whose handler takes the pack
\* sizes from the body and in the one whose handler holds the server's calculator
ServeCalculate(req) ==
    Served(req, CalculateHandle(heap, packSizes, req), "CalculateHandler.Handle")

ServeRegistryCalculate(req) ==
    Served(req, RegistryCalculateHandle(heap, packSizes, req),
           "CalculateHandler.Handle(calculator)")

\* the handler has returned; the next request gets a fresh ResponseWriter
Finish ==
    /\ response # NoResponse
    /\ request' = NoRequest
    /\ response' = NoResponse
    /\ called' = {}
    /\ lastOp' = "Finish"
    /\ UNCHANGED <<heap, packSizes, argRef, held, result, optimalSolutions, panicked,
                   installed, asked, earlier, goroutines, build>>

-----------------------------------------------------------------------------
(* Goroutines calling into one calculator, one statement at a time *)

\* In these runs a goroutine's own slices (its argument, the copy it is making) are
\* kept by value in procs: no other goroutine has a reference to them.

\* pc.mu.Lock() and pc.mu.RLock() return once the lock can be taken
CanLock(m) == m.writer = {} /\ m.readers = {}
CanRLockAlways(m) == TRUE
CanRLock(m) == m.writer = {}

\* pc.mu.Unlock() and pc.mu.RUnlock()
Unlocking(m, p) == [m EXCEPT !.writer = @ \ {p}]
RUnlockingLate(m, p) == m
RUnlocking(m, p) == [m EXCEPT !.readers = @ \ {p}]

\* make([]int, n) and copy(dst, src) of GetPackSizes
MakeInts(n) == [i \in 1..n |-> 0]
CopyInts(dst, src) == [i \in 1..Len(dst) |-> IF i <= Len(src) THEN src[i] ELSE dst[i]]

\* the goroutine is inside UpdatePackSizes
Updating(r) == r.pc \in {"Lock", "install", "Unlock"}

\* the goroutine is in Calculate and has not copied the registry's list yet
BeforeSnapshot(r) == r.op = "Calculate" /\ r.pc \in {"RLock", "make", "copy"}

\* p moves on to the record next; nothing but procs changes
Step(p, next) ==
    /\ procs' = [procs EXCEPT ![p] = next]
    /\ UNCHANGED <<heap, packSizes, argRef, held, result, optimalSolutions, panicked,
                   installed, asked, earlier, lastOp, server, mu, build>>

\* p enters a call that begins with UpdatePackSizes(sizes): every Calculate that has
\* not taken its snapshot yet now runs concurrently with an update
Updater(p, op, sizes) ==
    /\ procs[p].pc = "idle"
    /\ procs' = [q \in Procs |->
                    IF q = p
                    THEN [Idle EXCEPT !.op = op, !.pc = "Lock", !.arg = sizes]
                    ELSE IF BeforeSnapshot(procs[q])
                    THEN [procs[q] EXCEPT !.raced = TRUE, !.latest = <<>>]
                    ELSE procs[q]]
    /\ UNCHANGED <<heap, packSizes, argRef, held, result, optimalSolutions, panicked,
                   installed, asked, earlier, lastOp, server, mu, build>>

\* go calculator.UpdatePackSizes(sizes)
CallUpdatePackSizes(p, sizes) == Updater(p, "UpdatePackSizes", sizes)

\* a POST to /api/pack-sizes whose body passed the checks of handlePost: the handler
\* calls UpdatePackSizes, then GetPackSizes for the response
CallHandlePost(p, sizes) ==
    /\ ~EmptyPackSizes(sizes)
    /\ ~AnyNotPositive(sizes)
    /\ Updater(p, "handlePost", sizes)

\* go calculator.GetPackSizes()
CallGetPackSizes(p) ==
    /\ procs[p].pc = "idle"
    /\ Step(p, [Idle EXCEPT !.op = "GetPackSizes", !.pc = "RLock"])

\* go calculator.Calculate(order)
CallCalculate(p, order) ==
    /\ procs[p].pc = "idle"
    /\ Step(p, [Idle EXCEPT !.op = "Calculate", !.pc = "RLock", !.order = order,
                            !.latest = IF \E q \in Procs : Updating(procs[q])
                                       THEN <<>> ELSE installed,
                            !.raced = \E q \in Procs : Updating(procs[q]),
                            !.afterUpdate = (argRef = 0)])

\* pc.mu.Lock()
Lock(p) ==
    /\ procs[p].pc = "Lock"
    /\ CanLock(mu)
    /\ mu' = [mu EXCEPT !.writer = {p}]
    /\ procs' = [procs EXCEPT ![p].pc = "install"]
    /\ UNCHANGED <<heap, packSizes, argRef, held, result, optimalSolutions, panicked,
                   installed, asked, earlier, lastOp, server, build>>

\* sortedSizes := make; copy; sort.Ints; pc.packSizes = sortedSizes
Install(p) ==
    LET arg == NewArray(heap)
        done == UpdatePackSizes(heap @@ (arg :> procs[p].arg), arg)
        live == LiveIds(<<done.packSizes>>, <<>>)
    IN /\ procs[p].pc = "install"
       /\ heap' = Reclaim(done.heap, live)
       /\ packSizes' = Moved(live, done.packSizes)
       /\ argRef' = 0
       /\ installed' = procs[p].arg
       /\ procs' = [procs EXCEPT ![p].pc = "Unlock"]
       /\ UNCHANGED <<held, result, optimalSolutions, panicked, asked, earlier, lastOp,
                      server, mu, build>>

\* the deferred pc.mu.Unlock(); handlePost goes on to GetPackSizes
Unlock(p) ==
    /\ procs[p].pc = "Unlock"
    /\ mu' = Unlocking(mu, p)
    /\ procs' = [procs EXCEPT ![p].pc = IF procs[p].op = "handlePost"
                                        THEN "RLock" ELSE "return"]
    /\ UNCHANGED <<heap, packSizes, argRef, held, result, optimalSolutions, panicked,
                   installed, asked, earlier, lastOp, server, build>>

\* pc.mu.RLock()
RLock(p) ==
    /\ procs[p].pc = "RLock"
    /\ CanRLock(mu)
    /\ mu' = [mu EXCEPT !.readers = @ \cup {p}]
    /\ procs' = [procs EXCEPT ![p].pc = "make"]
    /\ UNCHANGED <<heap, packSizes, argRef, held, result, optimalSolutions, panicked,
                   installed, asked, earlier, lastOp, server, build>>

\* sizes := make([]int, len(pc.packSizes))
Make(p) ==
    /\ procs[p].pc = "make"
    /\ Step(p, [procs[p] EXCEPT !.pc = "copy", !.sizes = MakeInts(Len(heap[packSizes]))])

\* copy(sizes, pc.packSizes)
Copy(p) ==
    /\ procs[p].pc = "copy"
    /\ Step(p, [procs[p] EXCEPT !.pc = "RUnlock",
                                !.sizes = CopyInts(@, heap[packSizes])])

\* the deferred pc.mu.RUnlock(); Calculate goes on to the sweep on its copy
RUnlock(p) ==
    /\ procs[p].pc = "RUnlock"
    /\ mu' = RUnlocking(mu, p)
    /\ procs' = [procs EXCEPT ![p].pc = IF procs[p].op = "Calculate"
                                        THEN "sweep" ELSE "return"]
    /\ UNCHANGED <<heap, packSizes, argRef, held, result, optimalSolutions, panicked,
                   installed, asked, earlier, lastOp, server, build>>

\* Calculate from the order check to its return, on the copy it holds
Sweep(p) ==
    LET done == CalculateOn([heap |-> <<procs[p].sizes>>, ref |-> 1], procs[p].order)
    IN /\ procs[p].pc = "sweep"
       /\ procs' = [procs EXCEPT
                       ![p].pc = "return",
                       ![p].result = [TotalItems |-> done.result.TotalItems,
                                      Packs |-> done.result.Packs,
                                      PackSizes |-> IF done.panicked THEN <<>>
                                                    ELSE done.heap[done.result.PackSizes]]]
       /\ UNCHANGED <<heap, packSizes, argRef, held, result, optimalSolutions, panicked,
                      installed, asked, earlier, lastOp, server, mu, build>>

\* the call returns and its locals are dropped
Return(p) ==
    /\ procs[p].pc = "return"
    /\ Step(p, Idle)

-----------------------------------------------------------------------------
(* Specifications *)

\* one caller issuing UpdatePackSizes and Calculate in any order
Init == \E sizes \in PackLists : New(sizes)

Next ==
    \/ \E sizes \in PackLists : Update(sizes)
    \/ \E order \in Orders : Calc(order)

Spec == Init /\ [][Next]_vars

\* repeated Calculate calls on a fixed pack-size list
NextRepeat == \E order \in Orders : CalcAgain(order)

SpecRepeat == Init /\ [][NextRepeat]_vars

\* a caller that keeps and overwrites the slice it got back from GetPackSizes
InitAlias == \E sizes \in AliasLists : New(sizes)

NextAlias ==
    \/ \E sizes \in AliasLists : Update(sizes)
    \/ Get
    \/ \E i \in 1..MaxAliasLen, v \in AliasValues : WriteHeld(i, v)
    \/ \E order \in AliasOrders : Calc(order)

SpecAlias == InitAlias /\ [][NextAlias]_vars

\* a caller that goes on writing into the slice it passed to the calculator
NextArg ==
    \/ \E sizes \in ArgLists : Update(sizes)
    \/ \E i \in 1..MaxAliasLen, v \in ArgWrites : WriteArg(i, v)
    \/ Get
    \/ \E order \in ArgOrders : Calc(order)

InitArg == \E sizes \in ArgLists : New(sizes)

SpecArg == InitArg /\ [][NextArg]_vars

\* one Calculate on a calculator just made, its sweep followed pass by pass
InitBuild == \E sizes \in BuildLists : New(sizes)

NextBuild ==
    \/ \E order \in BuildOrders : StartBuild(order)
    \/ BuildStep

SpecBuild == InitBuild /\ [][NextBuild]_vars

\* a caller that compares a Calculate result with one it got earlier, whatever
\* UpdatePackSizes and Calculate calls it made in between
NextHistory ==
    \/ \E sizes \in AliasLists : UpdateRecalling(sizes)
    \/ \E order \in AliasOrders : CalcRecalling(order)
    \/ Record

SpecHistory == InitAlias /\ [][NextHistory]_vars

\* the server started on a validated configuration, answering requests in turn
InitHttp == \E sizes \in {l \in HttpLists : Validate(l)} : New(sizes)

NextHttp ==
    \/ \E req \in Requests(PackSizesBodies) : ServePackSizes(req)
    \/ \E req \in Requests(CalculateBodies) : ServeCalculate(req)
    \/ \E req \in Requests(CalculateBodies) : ServeRegistryCalculate(req)
    \/ Finish

SpecHttp == InitHttp /\ [][NextHttp]_vars

\* goroutines calling UpdatePackSizes, GetPackSizes and Calculate on one calculator
InitConc == \E sizes \in ConcLists : New(sizes)

NextConc ==
    \E p \in Procs :
        \/ \E sizes \in ConcLists : CallUpdatePackSizes(p, sizes)
        \/ CallGetPackSizes(p)
        \/ \E order \in ConcOrders : CallCalculate(p, order)
        \/ Lock(p)
        \/ Install(p)
        \/ Unlock(p)
        \/ RLock(p)
        \/ Make(p)
        \/ Copy(p)
        \/ RUnlock(p)
        \/ Sweep(p)
        \/ Return(p)

SpecConc == InitConc /\ [][NextConc]_vars

\* concurrent POST requests to /api/pack-sizes, each in its own goroutine
NextPosts ==
    \E p \in Procs :
        \/ \E sizes \in ConcLists : CallHandlePost(p, sizes)
        \/ Lock(p)
        \/ Install(p)
        \/ Unlock(p)
        \/ RLock(p)
        \/ Make(p)
        \/ Copy(p)
        \/ RUnlock(p)
        \/ Return(p)

SpecPosts == InitConc /\ [][NextPosts]_vars

-----------------------------------------------------------------------------
(* Vocabulary of the properties *)

\* the latest call was Calculate and result holds what it returned
Calculated == lastOp = "Calculate"

\* the registry's list, and the list the latest Calculate computed with
Registry == heap[packSizes]
Snapshot == heap[result.PackSizes]

Elems(s) == {s[i] : i \in 1..Len(s)}
AllPositive(s) == \A i \in 1..Len(s) : s[i] > 0
Largest(s) == CHOOSE m \in Elems(s) : \A x \in Elems(s) : x <= m
Ascending(s) == \A i \in 1..Len(s), j \in 1..Len(s) : i < j => s[i] <= s[j]
Occurrences(s, x) == Cardinality({i \in 1..Len(s) : s[i] = x})
SameMultiset(s, t) ==
    /\ Len(s) = Len(t)
    /\ \A x \in Elems(s) \cup Elems(t) : Occurrences(s, x) = Occurrences(t, x)

\* sum of size x count over a size -> count mapping
RECURSIVE ItemsIn(_)
ItemsIn(m) ==
    IF DOMAIN m = {} THEN 0
    ELSE LET k == CHOOSE x \in DOMAIN m : TRUE
         IN k * m[k] + ItemsIn([x \in DOMAIN m \ {k} |-> m[x]])

\* sum of the counts of a size -> count mapping
RECURSIVE PackagesIn(_)
PackagesIn(m) ==
    IF DOMAIN m = {} THEN 0
    ELSE LET k == CHOOSE x \in DOMAIN m : TRUE
         IN m[k] + PackagesIn([x \in DOMAIN m \ {k} |-> m[x]])

\* t is the total of some combination of exactly n packages of positive sizes S
RECURSIVE CombinationOf(_, _, _)
CombinationOf(S, t, n) ==
    IF n = 0 THEN t = 0
    ELSE \E size \in S : size <= t /\ CombinationOf(S, t - size, n - 1)

\* t is the total of some combination of packages of positive sizes S
Combination(S, t) == \E n \in 0..t : CombinationOf(S, t, n)

\* Calculate ran with a positive order on a non-empty list of positive sizes
PositiveCase ==
    /\ Calculated
    /\ asked > 0
    /\ Len(Registry) > 0
    /\ AllPositive(Registry)

-----------------------------------------------------------------------------
(* Properties *)

\* C1: for an order > 0 and a non-empty list of positive pack sizes, Calculate
\* returns totalItems >= order, found within [order, order + largestPack], so the
\* zero/empty fallback is not what it returns.
C1_Feasibility ==
    PositiveCase =>
        /\ ~panicked
        /\ result.TotalItems >= asked
        /\ result.TotalItems <= asked + Largest(Registry)
        /\ result.Packs # <<>>

\* an order that no combination meets exactly, so more than the order is shipped
C1_Witness == PositiveCase /\ result.TotalItems > asked

\* C2: for an order > 0 and non-empty positive pack sizes, no combination of the
\* pack sizes has a total t with order <= t < totalItems.
C2_MinimalWaste ==
    PositiveCase =>
        \A t \in asked..(result.TotalItems - 1) : ~Combination(Elems(Registry), t)

\* two totals at or above the order had to be ruled out, with two sizes to combine
C2_Witness ==
    /\ PositiveCase
    /\ Cardinality(Elems(Registry)) >= 2
    /\ result.TotalItems >= asked + 2

\* C3: for an order > 0 and non-empty positive pack sizes, no combination with
\* total exactly totalItems uses fewer packages than the returned Packs.
C3_MinimalPackages ==
    PositiveCase =>
        \A n \in 0..(PackagesIn(result.Packs) - 1) :
            ~CombinationOf(Elems(Registry), result.TotalItems, n)

\* the returned total can also be packed with more packages than were returned
C3_Witness ==
    /\ PositiveCase
    /\ PackagesIn(result.Packs) >= 2
    /\ \E n \in (PackagesIn(result.Packs) + 1)..result.TotalItems :
           CombinationOf(Elems(Registry), result.TotalItems, n)

\* C4: for any order and any pack sizes, TotalItems of the result equals the
\* sum of size x count over its Packs.
C4_TotalIsSumOfPacks == Calculated => result.TotalItems = ItemsIn(result.Packs)

\* a result that uses two different sizes
C4_Witness == Calculated /\ Cardinality(DOMAIN result.Packs) >= 2

\* C5 as stated: for valid inputs, totalItems equals order plus the sum of
\* size x count over the returned mapping.
C5_AsStated ==
    (Calculated /\ asked >= 0 /\ Len(Registry) > 0 /\ AllPositive(Registry)) =>
        result.TotalItems = result.Order + ItemsIn(result.Packs)

\* C5 amended: for valid inputs, totalItems equals the sum of size x count over
\* the returned mapping; order is not added to it.
C5_TotalWithoutOrder ==
    (Calculated /\ asked >= 0 /\ Len(Registry) > 0 /\ AllPositive(Registry)) =>
        result.TotalItems = ItemsIn(result.Packs)

\* a positive order met exactly
C5_Witness == PositiveCase /\ result.TotalItems = asked /\ result.Packs # <<>>

\* C6: on a fixed pack-size list, of two Calculate calls the one with the
\* smaller (or equal) order never returns the larger TotalItems.
C6_Monotonic ==
    Calculated =>
        \A e \in earlier :
            /\ e.Order <= result.Order => e.TotalItems <= result.TotalItems
            /\ result.Order <= e.Order => result.TotalItems <= e.TotalItems

\* two calls on the same list, the later with the larger order and larger total
C6_Witness ==
    /\ Calculated
    /\ \E e \in earlier :
           /\ e.PackSizes = Snapshot
           /\ 0 < e.Order /\ e.Order < result.Order
           /\ e.TotalItems < result.TotalItems

\* C7: for an order <= 0, whatever the pack sizes, Calculate returns Order =
\* the order given, TotalItems = 0 and empty Packs, and builds no DP table.
C7_NothingForNonPositiveOrder ==
    (Calculated /\ asked <= 0) =>
        /\ ~panicked
        /\ result.Order = asked
        /\ result.TotalItems = 0
        /\ result.Packs = <<>>
        /\ optimalSolutions = <<>>

\* order 0 on a list that could ship something
C7_Witness == Calculated /\ asked = 0 /\ Len(Registry) > 0 /\ AllPositive(Registry)

\* C8: with an empty pack-size list and order > 0, Calculate does not fail and
\* returns Order = the order given, TotalItems = 0 and empty Packs.
C8_EmptyListGivesEmptyResult ==
    (Calculated /\ asked > 0 /\ Len(Registry) = 0) =>
        /\ ~panicked
        /\ result.Order = asked
        /\ result.TotalItems = 0
        /\ result.Packs = <<>>
        /\ Snapshot = <<>>

\* a positive order on a registry whose latest NewPackCalculator or
\* UpdatePackSizes installed the empty list (both lead to this same state)
C8_Witness == Calculated /\ asked > 0 /\ installed = <<>> /\ Registry = <<>>

\* C9: a write through a slice returned by GetPackSizes leaves the registry's
\* list as it was, later snapshots (GetPackSizes, Calculate) are the ascending
\* list last installed, and UpdatePackSizes leaves a slice returned before as
\* it was.
C9_CopyIsolation ==
    [][/\ lastOp' = "WriteHeld" => heap'[packSizes'] = heap[packSizes]
       /\ lastOp' = "GetPackSizes" =>
              Ascending(heap'[held']) /\ SameMultiset(heap'[held'], installed')
       /\ lastOp' = "Calculate" =>
              /\ Ascending(heap'[result'.PackSizes])
              /\ SameMultiset(heap'[result'.PackSizes], installed')
       /\ (lastOp' = "UpdatePackSizes" /\ held # 0) =>
              held' # 0 /\ heap'[held'] = heap[held]]_vars

\* the caller wrote a 0 into the slice it holds, and Calculate ran after that
C9_Witness ==
    /\ Calculated
    /\ held # 0
    /\ \E i \in 1..Len(heap[held]) : heap[held][i] = 0
    /\ AllPositive(Snapshot)
    /\ Len(Snapshot) > 0

\* C10: after NewPackCalculator and after every UpdatePackSizes the registry's
\* list is ascending and is a permutation (same multiset, same length) of the
\* list passed to the latest of those calls.
C10_SortedPermutation ==
    /\ Ascending(Registry)
    /\ SameMultiset(Registry, installed)

\* an update with a descending list that repeats no element was installed
C10_Witness ==
    /\ lastOp = "UpdatePackSizes"
    /\ Len(installed) >= 2
    /\ installed[1] > installed[2]

\* C11: a POST to the pack-sizes handler whose body does not decode, or whose list
\* is empty, or holds an element <= 0 at any position, is answered with status 400,
\* calls no UpdatePackSizes and leaves the registry's list exactly as it was.
InvalidPackSizesPost(req) ==
    /\ req.method = "POST"
    /\ \/ ~req.decodes
       \/ Len(DecodedPackSizes(req)) = 0
       \/ \E i \in 1..Len(DecodedPackSizes(req)) : DecodedPackSizes(req)[i] <= 0

C11_InvalidPostRejected ==
    [][(lastOp' = "PackSizesHandler.Handle" /\ InvalidPackSizesPost(request'))
          => /\ response'.status = 400
             /\ "UpdatePackSizes" \notin called'
             /\ heap'[packSizes'] = heap[packSizes]]_vars

\* a POST whose only non-positive element is the last one was rejected
C11_Witness ==
    /\ lastOp = "PackSizesHandler.Handle"
    /\ request.method = "POST"
    /\ request.decodes
    /\ Len(DecodedPackSizes(request)) = 2
    /\ DecodedPackSizes(request)[1] > 0
    /\ DecodedPackSizes(request)[2] <= 0
    /\ response.status = 400
    /\ response.error = "All pack sizes must be positive"

\* C12 as stated: the calculate handler answers every request of order < 0 with 400
\* "Order must be positive" without calling Calculate, and every request of order 0
\* with 200 and total_items 0.
CalculateServed ==
    /\ lastOp \in {"CalculateHandler.Handle", "CalculateHandler.Handle(calculator)"}
    /\ request.method = "POST"
    /\ request.decodes

OrderRejected ==
    /\ response.status = 400
    /\ response.error = "Order must be positive"
    /\ "Calculate" \notin called

OrderOnly == CalculateServed /\ request.order >= 0 /\ request.packSizes = <<>>

ComputedFromRegistry ==
    /\ response.status = 200
    /\ "Calculate" \in called
    /\ response.order = request.order
    /\ response.pack_sizes = Registry
    /\ response.total_items = Calculate(heap, packSizes, request.order).result.TotalItems
    /\ response.packs = Calculate(heap, packSizes, request.order).result.Packs

C13_AsStated == OrderOnly => ComputedFromRegistry

\* the same, of the handler that holds the server's calculator only
C13_HoldsWithRegistry ==
    (OrderOnly /\ lastOp = "CalculateHandler.Handle(calculator)") => ComputedFromRegistry

\* C14: no torn reads.  With any UpdatePackSizes calls running beside it, the copy a
\* GetPackSizes or Calculate takes is, when the copy statement ends, the ascending
\* sorted copy of the one list installed last, whole; the goroutine's copy never
\* changes afterwards, and a Calculate returns that copy as PackSizes with every key
\* of Packs an element of it.
HasSnapshot(r) == r.pc \in {"RUnlock", "sweep", "return"} /\ r.op # "UpdatePackSizes"

C14_NoTornReads ==
    [][\A p \in Procs :
          /\ (procs[p].pc = "copy" /\ procs'[p].pc = "RUnlock")
                => procs'[p].sizes = SortInts(installed')
          /\ (HasSnapshot(procs[p]) /\ HasSnapshot(procs'[p]))
                => procs'[p].sizes = procs[p].sizes
          /\ (procs[p].pc = "sweep" /\ procs'[p].pc = "return")
                => /\ procs'[p].result.PackSizes = procs[p].sizes
                   /\ DOMAIN procs'[p].result.Packs \subseteq Elems(procs[p].sizes)]_vars

\* a Calculate returned packs of a snapshot that an update has replaced since
C14_Witness ==
    \E p \in Procs :
        /\ procs[p].op = "Calculate"
        /\ procs[p].pc = "return"
        /\ procs[p].result.Packs # <<>>
        /\ Len(procs[p].result.PackSizes) # Len(Registry)

\* C15: a Calculate in its sweep holds the registry lock neither as reader nor as
\* writer, so an UpdatePackSizes waiting at Lock beside goroutines that are all in
\* their sweep can take the write lock at once.
C15_SweepHoldsNoLock ==
    /\ \A p \in Procs :
          procs[p].pc = "sweep" => p \notin mu.readers /\ p \notin mu.writer
    /\ \A q \in Procs :
          (/\ procs[q].pc = "Lock"
           /\ \A p \in Procs \ {q} : procs[p].pc = "sweep")
              => CanLock(mu)

\* an update took the write lock and installed its list while a Calculate was in
\* its sweep on the list installed before
C15_Witness ==
    \E p \in Procs, q \in Procs :
        /\ procs[p].pc = "sweep"
        /\ procs[q].op = "UpdatePackSizes"
        /\ procs[q].pc = "Unlock"
        /\ q \in mu.writer
        /\ procs[p].sizes # Registry

\* C16: Calculate never modifies the registry: for every order, the registry's
\* pack-size list when Calculate has returned is the list it was before the call.
C16_CalculateLeavesRegistry ==
    [][lastOp' = "Calculate" => heap'[packSizes'] = heap[packSizes]]_vars

\* a Calculate that built a table and returned packs, on a registry of two sizes
C16_Witness ==
    /\ Calculated
    /\ optimalSolutions # <<>>
    /\ result.Packs # <<>>
    /\ Len(Registry) = 2
    /\ Registry = SortInts(installed)

\* C17: in every 200 response of the calculate handler, surplus is total_items minus
\* order and total_packs is the sum of the values of the packs of that response.
C17_DerivedFields ==
    (/\ lastOp \in {"CalculateHandler.Handle", "CalculateHandler.Handle(calculator)"}
     /\ response.status = 200)
        => /\ response.surplus = response.total_items - response.order
           /\ response.total_packs = PackagesIn(response.packs)

\* a 200 response with a surplus and two packs of one size
C17_Witness ==
    /\ lastOp = "CalculateHandler.Handle"
    /\ response.status = 200
    /\ response.surplus > 0
    /\ \E size \in DOMAIN response.packs : response.packs[size] >= 2

\* C18: every POST to the pack-sizes handler that passes validation is answered with
\* pack_sizes equal to the ascending sorted copy of the list this request submitted,
\* in every interleaving of concurrent POSTs (the copy in sizes is what the handler
\* writes with status 200 when it returns).
C18_AsStated ==
    \A p \in Procs :
        (procs[p].op = "handlePost" /\ procs[p].pc = "return")
            => procs[p].sizes = SortInts(procs[p].arg)

C20_SeesLatestUpdate ==
    \A p \in Procs :
        (procs[p].op = "Calculate" /\ procs[p].pc = "return" /\ ~procs[p].raced)
            => procs[p].result.PackSizes = SortInts(procs[p].latest)

\* a Calculate that started after an update of two sizes in descending order had
\* returned, and packed with them
C20_Witness ==
    \E p \in Procs :
        /\ procs[p].op = "Calculate"
        /\ procs[p].pc = "return"
        /\ ~procs[p].raced
        /\ procs[p].afterUpdate
        /\ procs[p].latest # SortInts(procs[p].latest)
        /\ procs[p].result.Packs # <<>>

\* C21: started from a configuration accepted by Config.Validate and changed
\* only by requests to the pack-sizes handler, the registry list is never
\* empty and holds only sizes above zero
C21_RegistryValid == Len(Registry) > 0 /\ AllPositive(Registry)

\* a POST to the pack-sizes handler has replaced the list by a different one
C21_Witness ==
    /\ lastOp = "PackSizesHandler.Handle"
    /\ request.method = "POST"
    /\ "UpdatePackSizes" \in called
    /\ response.status = 200
    /\ Len(Registry) = 2
    /\ Registry # SortInts(<<1>>)

CalculateChecks(req) ==
    << [fails |-> req.method # "POST", status |-> 405, error |-> "Method not allowed"],
       [fails |-> ~req.decodes, status |-> 400, error |-> "Invalid request body"],
       [fails |-> req.order < 0, status |-> 400, error |-> "Order must be positive"],
       [fails |-> Len(DecodedPackSizes(req)) = 0, status |-> 400,
        error |-> "Pack sizes cannot be empty"],
       [fails |-> \E i \in 1..Len(DecodedPackSizes(req)) : DecodedPackSizes(req)[i] <= 0,
        status |-> 400, error |-> "All pack sizes must be positive"] >>

\* C27: the calculate handler answers with the status and message of the first
\* check, in the order method, body, order, empty pack sizes, non-positive pack
\* size, that the request fails, and does not reach Calculate
C27_FirstFailureReported ==
    lastOp = "CalculateHandler.Handle" =>
        \A k \in 1..Len(CalculateChecks(request)) :
            (/\ CalculateChecks(request)[k].fails
             /\ \A j \in 1..(k - 1) : ~CalculateChecks(request)[j].fails)
                => /\ response.status = CalculateChecks(request)[k].status
                   /\ response.error = CalculateChecks(request)[k].error
                   /\ "Calculate" \notin called

\* a negative order with an empty pack_sizes list was answered "Order must be positive"
C27_Witness ==
    /\ lastOp = "CalculateHandler.Handle"
    /\ request.method = "POST"
    /\ request.decodes
    /\ request.order < 0
    /\ request.packSizes = << <<>> >>
    /\ response.status = 400
    /\ response.error = "Order must be positive"

\* what each call and each write of the caller leaves behind it
ArgumentKept ==
    /\ (lastOp' = "UpdatePackSizes") =>
           (heap'[argRef'] = installed' /\ argRef' # packSizes')
    /\ (lastOp' = "WriteArg") => (heap'[packSizes'] = heap[packSizes])
    /\ (lastOp' = "GetPackSizes") => (heap'[held'] = SortInts(installed'))
    /\ (lastOp' = "Calculate") => (heap'[result'.PackSizes] = SortInts(installed'))

\* C28: NewPackCalculator and UpdatePackSizes leave the caller's slice in the
\* order it had and do not keep it: the registry's list is another array, a
\* write through the slice afterwards leaves the registry's list as it was, and
\* every later snapshot (GetPackSizes, Calculate) is the ascending list of the
\* values the slice held when it was passed
C28_ArgumentIsolation ==
    /\ (lastOp = "NewPackCalculator") => (heap[argRef] = installed /\ argRef # packSizes)
    /\ [][ArgumentKept]_vars

\* the caller passed a descending slice, wrote into it afterwards, and a
\* Calculate that followed packed with the list as it was passed
C28_Witness ==
    /\ Calculated
    /\ Len(installed) = 2
    /\ installed[1] > installed[2]
    /\ heap[argRef] # installed
    /\ Snapshot = SortInts(installed)

\* a sweep is being followed, and the solution recorded at t with its map's contents
Building == build # NoBuild
Candidate(t) == Pointee(build.maps, build.table[t])

\* C23: at every step of buildOptimalSolutions, every candidate recorded at
\* index t has totalItems = t, sizes x counts summing to t, totalPackCount equal
\* to the sum of its counts, only keys that are elements of the snapshot, and
\* only counts >= 1
C23_CandidatesConsistent ==
    Building =>
        \A t \in DOMAIN build.table :
            /\ Candidate(t).totalItems = t
            /\ ItemsIn(Candidate(t).packsBySize) = t
            /\ Candidate(t).totalPackCount = PackagesIn(Candidate(t).packsBySize)
            /\ DOMAIN Candidate(t).packsBySize \subseteq Elems(build.sizes)
            /\ \A size \in DOMAIN Candidate(t).packsBySize :
                   Candidate(t).packsBySize[size] >= 1

\* in the middle of a sweep, a candidate of two sizes, one of them taken twice
C23_Witness ==
    /\ Building
    /\ ~BuildReturned(build)
    /\ \E t \in DOMAIN build.table :
           /\ Cardinality(DOMAIN Candidate(t).packsBySize) = 2
           /\ \E size \in DOMAIN Candidate(t).packsBySize :
                  Candidate(t).packsBySize[size] = 2

\* C24: when buildOptimalSolutions has finished on positive pack sizes, the
\* table has an entry at t, for every t in 0..order+largestPack, exactly when
\* t is a combination of the pack sizes, the entry's totalPackCount is the
\* least number of packages of a combination summing to t, and the table is
\* the one Calculate searched
C24_TableComplete ==
    (Building /\ BuildReturned(build) /\ AllPositive(build.sizes)) =>
        /\ \A t \in 0..(asked + Largest(build.sizes)) :
               /\ t \in DOMAIN build.table <=> Combination(Elems(build.sizes), t)
               /\ t \in DOMAIN build.table =>
                      /\ CombinationOf(Elems(build.sizes), t, build.table[t].totalPackCount)
                      /\ \A n \in 0..(build.table[t].totalPackCount - 1) :
                             ~CombinationOf(Elems(build.sizes), t, n)
        /\ DOMAIN build.table \subseteq 0..(asked + Largest(build.sizes))
        /\ PointeeTable(build) = optimalSolutions

\* a finished table with a gap below the limit and with an entry that the
\* largest size first would pack with more packages than recorded (1, 3, 4: 6 = 3 + 3)
C24_Witness ==
    /\ Building
    /\ BuildReturned(build)
    /\ build.sizes = <<3, 3, 4>> \/ build.sizes = <<1, 3, 4>>
    /\ 6 \in DOMAIN build.table
    /\ build.table[6].totalPackCount = 2

\* one pass of the inner loop that called isBetterSolution with a recorded candidate
ComparedWithRecorded ==
    /\ Building
    /\ build' # build
    /\ build'.call # <<>>
    /\ build'.call[1].currentSolution # <<>>

\* C25: in every call of isBetterSolution made by the sweep with a non-nil
\* current solution the two solutions have the same totalItems, and the recorded
\* candidate is replaced exactly when the new one has strictly fewer packages
\* (with as many packages or more, the one recorded first stays)
C25_ReplacedOnlyByFewerPackages ==
    [][ComparedWithRecorded =>
          /\ build'.call[1].newSolution.totalItems
                 = build'.call[1].currentSolution[1].totalItems
          /\ build'.call[1].currentSolution[1] = build.table[build.currentQuantity]
          /\ IF build'.call[1].newSolution.totalPackCount
                    < build.table[build.currentQuantity].totalPackCount
             THEN build'.table[build.currentQuantity] = build'.call[1].newSolution
             ELSE build'.table = build.table]_vars

\* a recorded candidate has just been replaced by one of fewer packages
C25_Witness ==
    /\ Building
    /\ build.call # <<>>
    /\ build.call[1].currentSolution # <<>>
    /\ build.call[1].newSolution.totalPackCount
           < build.call[1].currentSolution[1].totalPackCount
    /\ build.call[1].newSolution \in {build.table[t] : t \in DOMAIN build.table}

\* no two entries of the table hold the same map
NoSharedMap ==
    \A t \in DOMAIN build.table, u \in DOMAIN build.table :
        t # u => build.table[t].packsBySize # build.table[u].packsBySize

\* a pass of the inner loop leaves every map made before, and every entry at
\* another quantity, as they were
BaseUntouched ==
    (Building /\ build' # build) =>
        /\ \A id \in DOMAIN build.maps : build'.maps[id] = build.maps[id]
        /\ \A t \in DOMAIN build.table \ {build.currentQuantity} :
               build'.table[t] = build.table[t]

\* C26: creating the candidate for t from the candidate at t - s leaves the
\* candidate at t - s as it was (its map is copied), no two entries of the
\* table hold the same map, and after the sweep every entry still has its own
\* totals: totalItems and totalPackCount are the sums over its map
C26_CandidatesNotShared ==
    /\ [](Building => NoSharedMap)
    /\ [](Building /\ BuildReturned(build) =>
             \A t \in DOMAIN build.table :
                 /\ Candidate(t).totalItems = ItemsIn(Candidate(t).packsBySize)
                 /\ Candidate(t).totalPackCount = PackagesIn(Candidate(t).packsBySize))
    /\ [][BaseUntouched]_vars

\* after the sweep the table holds a candidate and the base it was created
\* from, one pack apart, in two maps
C26_Witness ==
    /\ Building
    /\ BuildReturned(build)
    /\ \E t \in DOMAIN build.table, u \in DOMAIN build.table :
           /\ u > 0
           /\ t - u \in Elems(build.sizes)
           /\ Candidate(t).packsBySize = MapIncr(Candidate(u).packsBySize, t - u)
           /\ build.table[t].packsBySize # build.table[u].packsBySize

====
